---- MODULE Spec2Model ----
(***************************************************************************)
(* Model of pkg/imgpkg/image/registry.go: the Registry facade over the     *)
(* go-containerregistry remote client.  One call of one facade operation   *)
(* is followed step by step: transport construction, credential            *)
(* resolution, the remote library call(s) and, for writes, the retry loop. *)
(* Errors are records whose msg field is the error text as a sequence of   *)
(* fragments, so that fmt.Errorf("prefix: %s", err) is concatenation.      *)
(***************************************************************************)
EXTENDS Integers, Sequences, FiniteSets, TLC

\* ---------------------------------------------------------------- bounds
\* longest CACertPaths list drawn for RegistryOpts
MaxPaths == 2

\* ------------------------------------------------------------ error values
Nil == [type |-> "nil", msg |-> <<>>, codes |-> <<>>]

\* fmt.Errorf("<prefix>%s", err): a plain error whose text embeds err's text
Errorf(prefix, err) ==
  [type |-> "errorString", msg |-> prefix \o err.msg, codes |-> <<>>]

UnauthorizedErrorCode == "UNAUTHORIZED"

\* failures the remote library can return from one network exchange
ErrNet        == [type |-> "netError", msg |-> <<"connection reset">>, codes |-> <<>>]
ErrTranEmpty  == [type |-> "transport.Error", msg |-> <<"unexpected status 502">>, codes |-> <<>>]
ErrTranDenied == [type |-> "transport.Error", msg |-> <<"DENIED; UNAUTHORIZED">>,
                  codes |-> <<"DENIED", "UNAUTHORIZED">>]
ErrTranUnauth == [type |-> "transport.Error", msg |-> <<"UNAUTHORIZED: authentication required">>,
                  codes |-> <<"UNAUTHORIZED">>]
LibErrors   == {ErrNet, ErrTranEmpty, ErrTranDenied, ErrTranUnauth}
LibOutcomes == {Nil} \cup LibErrors

\* ------------------------------------------------------------- environment
Hosts == {"reg.example", "broken.example"}

\* files a CACertPaths entry can name: a PEM bundle, a missing file, and a
\* readable file holding no certificate
Paths == {"ca.pem", "missing.pem", "junk.pem"}
ErrNoEnt == [type |-> "PathError", msg |-> <<"no such file or directory">>, codes |-> <<>>]

\* ioutil.ReadFile(path)
ReadFile(path) ==
  IF path = "missing.pem" THEN [certs |-> {}, err |-> ErrNoEnt]
  ELSE IF path = "ca.pem" THEN [certs |-> {"caCert"}, err |-> Nil]
  ELSE [certs |-> {}, err |-> Nil]

SystemCerts == {"sysCert"}

\* x509.SystemCertPool(), falling back to x509.NewCertPool()
SystemCertPool(available) == IF available THEN SystemCerts ELSE {}

\* regauthn.DefaultKeychain.Resolve(res): the locally stored logins
NoAuth == [kind |-> "none", username |-> "", password |-> "", token |-> "", host |-> ""]
ErrKeychain == [type |-> "keychainError", msg |-> <<"reading docker config">>, codes |-> <<>>]
DefaultKeychainResolve(res) ==
  IF res = "broken.example"
  THEN [auth |-> NoAuth, err |-> ErrKeychain]
  ELSE [auth |-> [kind |-> "Default", username |-> "", password |-> "",
                  token |-> "", host |-> res],
        err |-> Nil]

\* ------------------------------------------------- customRegistryKeychain
ResolveTokenFirst(o, res) ==
  IF Len(o.Token) > 0
  THEN [auth |-> [kind |-> "Bearer", username |-> "", password |-> "",
                  token |-> o.Token, host |-> ""], err |-> Nil]
  ELSE IF Len(o.Username) > 0
  THEN [auth |-> [kind |-> "Basic", username |-> o.Username, password |-> o.Password,
                  token |-> "", host |-> ""], err |-> Nil]
  ELSE IF o.Anon
  THEN [auth |-> [kind |-> "Anonymous", username |-> "", password |-> "",
                  token |-> "", host |-> ""], err |-> Nil]
  ELSE DefaultKeychainResolve(res)

Resolve(o, res) ==
  IF Len(o.Username) > 0
  THEN [auth |-> [kind |-> "Basic", username |-> o.Username, password |-> o.Password,
                  token |-> "", host |-> ""], err |-> Nil]
  ELSE IF Len(o.Token) > 0
  THEN [auth |-> [kind |-> "Bearer", username |-> "", password |-> "",
                  token |-> o.Token, host |-> ""], err |-> Nil]
  ELSE IF o.Anon
  THEN [auth |-> [kind |-> "Anonymous", username |-> "", password |-> "",
                  token |-> "", host |-> ""], err |-> Nil]
  ELSE DefaultKeychainResolve(res)

\* --------------------------------------------------------- newHTTPTransport
NoTransport ==
  [built |-> FALSE, RootCAs |-> {}, InsecureSkipVerify |-> FALSE,
   Proxy |-> "", DialTimeout |-> 0, KeepAlive |-> 0, DualStack |-> FALSE,
   MaxIdleConns |-> 0, IdleConnTimeout |-> 0, TLSHandshakeTimeout |-> 0,
   ResponseHeaderTimeout |-> 0, ExpectContinueTimeout |-> 0]

\* the loop over opts.CACertPaths: stops at the first path that cannot be
\* read or that adds no certificate
RECURSIVE AppendCACertsLast(_, _)
AppendCACertsLast(paths, pool) ==
  IF paths = <<>> THEN [pool |-> pool, err |-> Nil]
  ELSE LET rest == AppendCACertsLast(Tail(paths), pool)
           path == Head(paths)
           file == ReadFile(path)
       IN  IF rest.err # Nil THEN rest
           ELSE IF file.err # Nil
           THEN [pool |-> pool,
                 err |-> Errorf(<<"Reading CA certificates from '", path, "': ">>, file.err)]
           ELSE IF file.certs = {}
           THEN [pool |-> pool,
                 err |-> Errorf(<<"Adding CA certificates from '", path, "': failed">>, Nil)]
           ELSE [pool |-> rest.pool \cup file.certs, err |-> Nil]

RECURSIVE AppendCACerts(_, _)
AppendCACerts(paths, pool) ==
  IF paths = <<>> THEN [pool |-> pool, err |-> Nil]
  ELSE LET path == Head(paths)
           file == ReadFile(path)
       IN  IF file.err # Nil
           THEN [pool |-> pool,
                 err |-> Errorf(<<"Reading CA certificates from '", path, "': ">>, file.err)]
           ELSE IF file.certs = {}
           THEN [pool |-> pool,
                 err |-> Errorf(<<"Adding CA certificates from '", path, "': failed">>, Nil)]
           ELSE AppendCACerts(Tail(paths), pool \cup file.certs)

newHTTPTransport(o, sysAvailable) ==
  LET r == AppendCACerts(o.CACertPaths, SystemCertPool(sysAvailable))
  IN  IF r.err # Nil
      THEN [tran |-> NoTransport, err |-> r.err]
      ELSE [tran |-> [built |-> TRUE, RootCAs |-> r.pool,
                      InsecureSkipVerify |-> (o.VerifyCerts = FALSE),
                      Proxy |-> "ProxyFromEnvironment",
                      DialTimeout |-> 30, KeepAlive |-> 30, DualStack |-> TRUE,
                      MaxIdleConns |-> 100, IdleConnTimeout |-> 90,
                      TLSHandshakeTimeout |-> 10, ResponseHeaderTimeout |-> 10,
                      ExpectContinueTimeout |-> 1],
            err |-> Nil]

\* ------------------------------------------------------------------- retry
MaxAttemptsOneMore == 5 + 1
MaxAttempts == 5

\* the type switch of retry: a transport error whose first sub-error is
\* UNAUTHORIZED
IsNonRetryableNever(err) == FALSE

IsNonRetryable(err) ==
  /\ err.type = "transport.Error"
  /\ Len(err.codes) > 0
  /\ err.codes[1] = UnauthorizedErrorCode

\* lastErr = doFunc()
NextLastErrKeepFirst(prev, res) == IF prev = Nil THEN res ELSE prev

NextLastErr(prev, res) == res

\* time.Sleep(1 * time.Second), in seconds, in iteration n (0-based)
SleepSecondsDoubling(n) == 2 ^ n

SleepSeconds(n) == 1

\* ------------------------------------------------------------------ facade
ReadOps  == {"Generic", "Image", "Index", "ListTags"}
WriteOps == {"WriteImage", "WriteIndex"}
Ops      == ReadOps \cup WriteOps

\* operations that fetch through imageOpts and hand the keychain to the library
OptsOps  == {"Generic", "Image", "Index"}

\* operations whose library call is wrapped in retry
UsesRetryAlsoList(o) == o \in WriteOps \cup {"ListTags"}

UsesRetry(o) == o \in WriteOps

\* the context put in front of a failed retry
WritePrefix(o) ==
  IF o = "WriteImage" THEN <<"Writing image: ">>
  ELSE IF o = "WriteIndex" THEN <<"Writing image index: ">>
  ELSE <<>>

\* what a successful call of operation o yields
Value(o) ==
  CASE o = "Generic"  -> "descriptor"
    [] o = "Image"    -> "image"
    [] o = "Index"    -> "index"
    [] o = "ListTags" -> "tags"
    [] OTHER          -> "none"

\* the error returned when the explicit Resolve of an operation fails
AuthFailureBare(err) == err

AuthFailure(err) == Errorf(<<"Getting auth details: ">>, err)

\* whether the operation goes on after its explicit Resolve
ProceedsAfterResolveAlways(err) == TRUE

ProceedsAfterResolve(err) == err = Nil

\* regremote.Get / Image / Index called with WithAuthFromKeychain: the
\* library resolves the keychain itself and hands back its failure, else the
\* outcome of the exchange
RemoteFetchOutcomes(o, res) ==
  IF Resolve(o, res).err # Nil THEN {Resolve(o, res).err} ELSE LibOutcomes

\* ------------------------------------------------------------------- state
VARIABLES
  opts,         \* Registry.opts
  sysPoolOK,    \* whether x509.SystemCertPool() succeeds on this host
  pc,           \* position of the running call
  op,           \* the operation called
  host,         \* registry of the reference or repository passed
  transport,    \* httpTran
  auth,         \* auth
  i,            \* loop counter of retry
  lastErr,      \* lastErr of retry
  retryRes,     \* value returned by retry
  result,       \* value returned by the operation
  trace         \* resolutions, library calls and sleeps, in order

vars == <<opts, sysPoolOK, pc, op, host, transport, auth, i, lastErr,
          retryRes, result, trace>>

RECURSIVE SeqsUpTo(_, _)
SeqsUpTo(S, n) ==
  IF n = 0 THEN {<<>>}
  ELSE LET shorter == SeqsUpTo(S, n - 1)
       IN  shorter \cup {Append(s, x) : s \in shorter, x \in S}

RegistryOpts ==
  [CACertPaths : SeqsUpTo(Paths, MaxPaths),
   VerifyCerts : BOOLEAN,
   Username    : {"", "u"},
   Password    : {"", "p"},
   Token       : {"", "t"},
   Anon        : BOOLEAN]

NoResult == [val |-> "none", err |-> Nil]

Event(kind, err, dur) == [ev |-> kind, err |-> err, dur |-> dur]

\* NewRegistry(opts)
Init ==
  /\ opts \in RegistryOpts
  /\ sysPoolOK \in BOOLEAN
  /\ pc = "idle"
  /\ op = "none"
  /\ host = "none"
  /\ transport = NoTransport
  /\ auth = NoAuth
  /\ i = 0
  /\ lastErr = Nil
  /\ retryRes = Nil
  /\ result = NoResult
  /\ trace = <<>>

\* a caller invokes one of the six operations
Call ==
  /\ pc = "idle"
  /\ \E o \in Ops, h \in Hosts :
       /\ op' = o
       /\ host' = h
  /\ pc' = "transport"
  /\ UNCHANGED <<opts, sysPoolOK, transport, auth, i, lastErr, retryRes, result, trace>>

\* i.newHTTPTransport(), directly or through imageOpts
BuildTransport ==
  /\ pc = "transport"
  /\ LET r == newHTTPTransport(opts, sysPoolOK)
     IN  IF r.err # Nil
         THEN /\ result' = [val |-> "none", err |-> r.err]
              /\ pc' = "done"
              /\ UNCHANGED transport
         ELSE /\ transport' = r.tran
              /\ pc' = IF op \in OptsOps THEN "fetch" ELSE "resolve"
              /\ UNCHANGED result
  /\ UNCHANGED <<opts, sysPoolOK, op, host, auth, i, lastErr, retryRes, trace>>

\* i.registryKeychain().Resolve(registry) in WriteImage, WriteIndex, ListTags
ResolveCredentials ==
  /\ pc = "resolve"
  /\ LET r == Resolve(opts, host)
     IN  /\ trace' = Append(trace, Event("resolve", r.err, 0))
         /\ IF ProceedsAfterResolve(r.err)
            THEN /\ auth' = r.auth
                 /\ pc' = IF UsesRetry(op) THEN "retry" ELSE "list"
                 /\ UNCHANGED result
            ELSE /\ result' = [val |-> "none", err |-> AuthFailure(r.err)]
                 /\ pc' = "done"
                 /\ UNCHANGED auth
  /\ UNCHANGED <<opts, sysPoolOK, op, host, transport, i, lastErr, retryRes>>

\* regremote.Get / Image / Index with the options of imageOpts
RemoteFetch ==
  /\ pc = "fetch"
  /\ \E e \in RemoteFetchOutcomes(opts, host) :
       /\ trace' = Append(trace, Event("call", e, 0))
       /\ result' = IF e = Nil THEN [val |-> Value(op), err |-> Nil]
                    ELSE [val |-> "none", err |-> e]
  /\ pc' = "done"
  /\ UNCHANGED <<opts, sysPoolOK, op, host, transport, auth, i, lastErr, retryRes>>

\* regremote.List(repo, WithAuth(auth), WithTransport(httpTran))
RemoteList ==
  /\ pc = "list"
  /\ \E e \in LibOutcomes :
       /\ trace' = Append(trace, Event("call", e, 0))
       /\ result' = IF e = Nil THEN [val |-> Value(op), err |-> Nil]
                    ELSE [val |-> "none", err |-> e]
  /\ pc' = "done"
  /\ UNCHANGED <<opts, sysPoolOK, op, host, transport, auth, i, lastErr, retryRes>>

\* one iteration of the loop of retry up to its return or its sleep
RetryAttempt ==
  /\ pc = "retry"
  /\ i < MaxAttempts
  /\ \E e \in LibOutcomes :
       /\ trace' = Append(trace, Event("call", e, 0))
       /\ lastErr' = NextLastErr(lastErr, e)
       /\ IF lastErr' = Nil
          THEN /\ retryRes' = Nil
               /\ pc' = "retried"
          ELSE IF IsNonRetryable(lastErr')
          THEN /\ retryRes' = Errorf(<<"Non-retryable error: ">>, lastErr')
               /\ pc' = "retried"
          ELSE /\ pc' = "sleep"
               /\ UNCHANGED retryRes
  /\ UNCHANGED <<opts, sysPoolOK, op, host, transport, auth, i, result>>

\* time.Sleep at the end of an iteration, then i++
RetrySleep ==
  /\ pc = "sleep"
  /\ trace' = Append(trace, Event("sleep", Nil, SleepSeconds(i)))
  /\ i' = i + 1
  /\ pc' = "retry"
  /\ UNCHANGED <<opts, sysPoolOK, op, host, transport, auth, lastErr, retryRes, result>>

\* the loop condition fails: return fmt.Errorf("Retried 5 times: %s", lastErr)
RetryExhausted ==
  /\ pc = "retry"
  /\ ~(i < MaxAttempts)
  /\ retryRes' = Errorf(<<"Retried 5 times: ">>, lastErr)
  /\ pc' = "retried"
  /\ UNCHANGED <<opts, sysPoolOK, op, host, transport, auth, i, lastErr, result, trace>>

\* WriteImage / WriteIndex after retry returned
WriteReturn ==
  /\ pc = "retried"
  /\ result' = IF retryRes # Nil
               THEN [val |-> "none", err |-> Errorf(WritePrefix(op), retryRes)]
               ELSE [val |-> Value(op), err |-> Nil]
  /\ pc' = "done"
  /\ UNCHANGED <<opts, sysPoolOK, op, host, transport, auth, i, lastErr, retryRes, trace>>

Next ==
  \/ Call
  \/ BuildTransport
  \/ ResolveCredentials
  \/ RemoteFetch
  \/ RemoteList
  \/ RetryAttempt
  \/ RetrySleep
  \/ RetryExhausted
  \/ WriteReturn

Spec == Init /\ [][Next]_vars

\* ------------------------------------------------------------ observations
Calls  == SelectSeq(trace, LAMBDA e : e.ev = "call")
Sleeps == SelectSeq(trace, LAMBDA e : e.ev = "sleep")
Resolutions == SelectSeq(trace, LAMBDA e : e.ev = "resolve")

\* retry has returned
Retried == pc \in {"retried", "done"} /\ op \in WriteOps /\ Len(Calls) > 0

\* a transport error whose first sub-error carries the unauthorized code
UnauthorizedFirst(e) ==
  e.type = "transport.Error" /\ e.codes # <<>> /\ Head(e.codes) = "UNAUTHORIZED"

\* a failure that does not trigger the short-circuit
RetryableFailure(e) == e # Nil /\ ~UnauthorizedFirst(e)

\* none of username, token, anonymous is configured
NoneConfigured == opts.Username = "" /\ opts.Token = "" /\ ~opts.Anon

\* the default credential chain fails for the host of this call
ResolutionFails ==
  NoneConfigured /\ host \in Hosts /\ DefaultKeychainResolve(host).err # Nil

BadPath(p) == ReadFile(p).err # Nil \/ ReadFile(p).certs = {}
BadIndexes == {k \in 1..Len(opts.CACertPaths) : BadPath(opts.CACertPaths[k])}
FirstBadPath ==
  opts.CACertPaths[CHOOSE k \in BadIndexes : \A m \in BadIndexes : k <= m]

\* C1: retry invokes the operation at most 5 times, and never again after an
\* attempt that succeeded.
C1_AtMostFiveAttempts ==
  op \in WriteOps =>
    /\ Len(Calls) <= 5
    /\ \A k \in 1..Len(Calls) : Calls[k].err = Nil => k = Len(Calls)

C1_Witness ==
  /\ pc = "done" /\ op = "WriteImage"
  /\ Len(Calls) = 5
  /\ Calls[5].err = Nil

\* C2: an attempt failing with a transport error whose first sub-error is
\* unauthorized ends retry at once: nothing (no sleep, no invocation)
\* follows it, and retry returns "Non-retryable error: <that failure>".
C2_UnauthorizedStopsAtOnce ==
  op \in WriteOps =>
    \A k \in 1..Len(trace) :
      (trace[k].ev = "call" /\ UnauthorizedFirst(trace[k].err)) =>
        /\ k = Len(trace)
        /\ pc \in {"retried", "done"}
        /\ retryRes.type = "errorString"
        /\ retryRes.msg = <<"Non-retryable error: ">> \o trace[k].err.msg
        /\ (Len(Calls) = 1 => Len(Sleeps) = 0)

C2_Witness ==
  /\ pc = "retried" /\ op = "WriteIndex"
  /\ Len(Calls) = 3 /\ Len(Sleeps) = 2
  /\ UnauthorizedFirst(Calls[3].err)
  /\ Calls[1].err = ErrTranDenied

\* C3: when all 5 attempts fail without the short-circuit, retry returns
\* "Retried 5 times: <failure of the 5th attempt>".
C3_ExhaustedWrapsFifth ==
  (/\ Retried
   /\ Len(Calls) = 5
   /\ \A k \in 1..5 : RetryableFailure(Calls[k].err)) =>
    /\ retryRes.type = "errorString"
    /\ retryRes.msg = <<"Retried 5 times: ">> \o Calls[5].err.msg

C3_Witness ==
  /\ Retried /\ Len(Calls) = 5
  /\ \A k \in 1..5 : RetryableFailure(Calls[k].err)
  /\ Calls[1].err = ErrNet /\ Calls[5].err = ErrTranEmpty
  /\ retryRes.msg = <<"Retried 5 times: ">> \o ErrTranEmpty.msg

\* C4: when attempts 1..k-1 fail with retryable errors and attempt k
\* succeeds, retry returns success after k invocations and k-1 sleeps of one
\* second, each sleep lying between two consecutive attempts.
C4_SuccessOnAttemptK ==
  (/\ Retried
   /\ Calls[Len(Calls)].err = Nil) =>
    /\ retryRes = Nil
    /\ Len(Calls) \in 1..5
    /\ Len(Sleeps) = Len(Calls) - 1
    /\ \A j \in 1..Len(trace) :
         trace[j].ev = "sleep" =>
           /\ trace[j].dur = 1
           /\ 1 < j /\ j < Len(trace)
           /\ trace[j - 1].ev = "call" /\ trace[j + 1].ev = "call"
    /\ (pc = "done" => result.err = Nil)

C4_Witness ==
  /\ pc = "done" /\ op = "WriteImage" /\ result.err = Nil
  /\ Len(Calls) = 5 /\ Len(Sleeps) = 4
  /\ \A k \in 1..4 : RetryableFailure(Calls[k].err)

\* C5: Resolve yields Basic(username, password) when username is non-empty,
\* else Bearer(token) when token is non-empty, else Anonymous when anonymous
\* is set, else what the default chain gives for the host; the default chain
\* is consulted only when none of the three is set.
C5_CredentialPrecedence ==
  Len(Resolutions) = 1 =>
    /\ opts.Username # "" =>
         /\ auth.kind = "Basic"
         /\ auth.username = opts.Username /\ auth.password = opts.Password
    /\ (opts.Username = "" /\ opts.Token # "") =>
         auth.kind = "Bearer" /\ auth.token = opts.Token
    /\ (opts.Username = "" /\ opts.Token = "" /\ opts.Anon) =>
         auth.kind = "Anonymous"
    /\ NoneConfigured =>
         /\ Resolutions[1].err = DefaultKeychainResolve(host).err
         /\ auth = DefaultKeychainResolve(host).auth
    /\ ~NoneConfigured => Resolutions[1].err = Nil
    /\ auth.kind = "Default" => NoneConfigured

C5_Witness ==
  /\ Len(Resolutions) = 1 /\ pc = "retry"
  /\ opts.Username = "u" /\ opts.Token = "t" /\ opts.Anon
  /\ auth.kind = "Basic"

\* C6: in WriteImage and WriteIndex a failed credential resolution means no
\* write attempt and no sleep, the failure is what the operation returns,
\* and every write attempt comes after a completed resolution.
C6_NoWriteOnAuthFailure ==
  op \in WriteOps =>
    /\ \A k \in 1..Len(trace) :
         (trace[k].ev = "resolve" /\ trace[k].err # Nil) =>
           /\ Len(Calls) = 0 /\ Len(Sleeps) = 0
           /\ pc = "done"
           /\ result.err.msg = <<"Getting auth details: ">> \o trace[k].err.msg
    /\ Len(Calls) > 0 => (trace[1].ev = "resolve" /\ trace[1].err = Nil)

C6_Witness ==
  /\ op = "WriteIndex" /\ pc = "done"
  /\ Len(trace) = 1 /\ trace[1].ev = "resolve" /\ trace[1].err = ErrKeychain
  /\ result.err # Nil

C8_ReadsNotRetried ==
  op \in ReadOps =>
    /\ Len(Calls) <= 1
    /\ Len(Sleeps) = 0
    /\ (pc = "done" /\ Len(Calls) = 1) => result.err = Calls[1].err

C8_Witness ==
  /\ op = "ListTags" /\ pc = "done"
  /\ Len(Calls) = 1 /\ Calls[1].err = ErrNet
  /\ result.err = ErrNet

\* C9: with an unreadable or certificate-less file among CACertPaths, the
\* transport build fails with an error naming the first such path, and the
\* operation returns it with no resolution, no library call and no retry.
C9_BadCAPathFailsBuild ==
  (BadIndexes # {} /\ pc \notin {"idle", "transport"}) =>
    /\ pc = "done"
    /\ trace = <<>>
    /\ ~transport.built
    /\ i = 0
    /\ result.err.type = "errorString"
    /\ Len(result.err.msg) >= 3
    /\ result.err.msg[1] \in {"Reading CA certificates from '", "Adding CA certificates from '"}
    /\ result.err.msg[2] = FirstBadPath

C9_Witness ==
  /\ pc = "done" /\ op = "WriteImage"
  /\ opts.CACertPaths = <<"junk.pem", "missing.pem">>
  /\ result.err.msg = <<"Adding CA certificates from '", "junk.pem", "': failed">>

\* C10: every sleep of retry is followed by another invocation, so 5 failed
\* attempts come with exactly 4 sleeps.
C10_SleepOnlyBetweenAttempts ==
  Retried =>
    /\ \A j \in 1..Len(trace) :
         trace[j].ev = "sleep" => (j < Len(trace) /\ trace[j + 1].ev = "call")
    /\ (Len(Calls) = 5 /\ \A k \in 1..5 : RetryableFailure(Calls[k].err)) =>
         Len(Sleeps) = 4

====
